---- MODULE Spec2Model ----
(***************************************************************************)
(* Feasleeple (src/app.py): a Streamlit session that keeps a list of       *)
(* recurring tasks, persists it as JSON, and audits the daily task load    *)
(* of a date window against MAX_WORK_CAPACITY.                             *)
(*                                                                         *)
(* Conventions of the model                                                *)
(*   - a date is the number of days since Monday 2025-01-06;               *)
(*   - hours are counted in tenths of an hour (13.0 h = 130), the          *)
(*     resolution of the number_input's min_value 0.1;                     *)
(*   - a task's 'days' list (a multiselect: distinct weekday names) is a   *)
(*     set of weekday names;                                               *)
(*   - list positions are 1-based; edit_index = NoIndex stands for None;   *)
(*   - a quotient of two hour counts is the reduced fraction <<n, d>>.     *)
(***************************************************************************)
EXTENDS Integers, Sequences, FiniteSets, TLC

\* ------------------------------------------------------------ constants

MAX_WORK_CAPACITY == 130

DAY_OPTIONS ==
  <<"Monday", "Tuesday", "Wednesday", "Thursday", "Friday", "Saturday", "Sunday">>

\* ------------------------------------------------------------ bounds

\* Dates a form or the audit date picker can deliver in a session: 0..MaxDate.
MaxDate == 1

\* The session model stops accepting new tasks at this list length.
MaxTasks == 2

\* Script runs (user interactions) of a modelled session after its first run.
MaxRuns == 4

\* Dates of the tasks and windows handed to run_audit directly: 0..MaxAuditDate.
MaxAuditDate == 2

\* Task ranges handed to calculate_total_scheduled_hours directly start in
\* 0..MaxRangeStart and span 1..MaxRangeLen days.
MaxRangeStart == 1

MaxRangeLen == 8

\* ------------------------------------------------------------ input alphabets

TaskNames == {"Work", "Gym"}

\* What the name text_input can hold on submit (it may be left empty).
FormNames == TaskNames \cup {""}

\* number_input values, in tenths of an hour: 9.0 h in the session; 5.0 h and
\* 13.0 h (the number_input's max_value) for the tasks handed to the core
\* functions directly.
FormTimes == {90}

CoreTimes == {50, 130}

\* What the weekday multiselect can hold on submit (it may be left empty).
FormDays == {{}, {"Monday", "Tuesday"}}

AllDays == {DAY_OPTIONS[i] : i \in DOMAIN DAY_OPTIONS}

\* Recurrence sets of the tasks handed to run_audit directly.
CoreDays == {{"Tuesday"}, AllDays}

\* Recurrence sets of the tasks handed to calculate_total_scheduled_hours
\* directly: of size 0, 1, 2 and 7.
TotalDays == {{}, {"Tuesday"}, {"Monday", "Thursday"}, AllDays}

\* ------------------------------------------------------------ state

VARIABLES
  tasks,                  \* st.session_state.tasks
  file,                   \* content of tasks_master.json
  audit_ran,              \* st.session_state.audit_ran
  audit_df,               \* st.session_state.audit_df (rows in index order)
  viz_df,                 \* st.session_state.viz_df (rows in order)
  summary,                \* total_audited_hours / total_active_days / avg_daily_load
  edit_index,             \* st.session_state.edit_index
  audit_start,            \* st.session_state.audit_start
  audit_end,              \* st.session_state.audit_end
  total_scheduled_hours,  \* the caption value of the last script run
  msg,                    \* the last message the last script run displayed
  runs                    \* script runs of the session after the first

vars == <<tasks, file, audit_ran, audit_df, viz_df, summary, edit_index,
          audit_start, audit_end, total_scheduled_hours, msg, runs>>

NoIndex == 0

\* timedelta(weeks=8), in days: the default length of the audit window.
DefaultAuditSpan == 56

NoFile == [kind |-> "absent"]

\* ------------------------------------------------------------ dates

\* date.strftime('%A') / DatetimeIndex.day_name(): day 0 is a Monday.
day_name(d) == DAY_OPTIONS[(d % 7) + 1]

\* Fault variant of date_range: the end day is left out.
date_range_ExclusiveEnd(start, end) ==
  IF start >= end THEN <<>> ELSE [i \in 1..(end - start) |-> start + i - 1]

\* pd.date_range(start, end, freq='D'): every day of [start, end], ascending;
\* empty when start > end.
date_range(start, end) ==
  IF start > end THEN <<>> ELSE [i \in 1..(end - start + 1) |-> start + i - 1]

\* date.isoformat() on the dates of the model.
IsoDates ==
  <<"2025-01-06", "2025-01-07", "2025-01-08", "2025-01-09", "2025-01-10",
    "2025-01-11", "2025-01-12", "2025-01-13", "2025-01-14", "2025-01-15",
    "2025-01-16", "2025-01-17", "2025-01-18", "2025-01-19", "2025-01-20">>

isoformat(d) == IsoDates[d + 1]

\* date.fromisoformat() on the strings isoformat produces.
fromisoformat(s) == (CHOOSE i \in DOMAIN IsoDates : IsoDates[i] = s) - 1

\* ------------------------------------------------------------ arithmetic

RECURSIVE GCD(_, _)
GCD(a, b) == IF b = 0 THEN a ELSE GCD(b, a % b)

\* True division a / b (b > 0) of two non-negative numbers, as a reduced fraction.
TrueDiv(a, b) == <<a \div GCD(a, b), b \div GCD(a, b)>>

Zero == <<0, 1>>

\* ------------------------------------------------------------ persistence

\* save_tasks: the JSON written from the task list, dates as ISO strings.
save_tasks(ts) ==
  [kind |-> "json",
   data |-> [i \in DOMAIN ts |->
              [ts[i] EXCEPT !.start = isoformat(ts[i].start),
                            !.end = isoformat(ts[i].end)]]]

\* A file that is not JSON.
GarbageFile == [kind |-> "garbage"]

\* date.fromisoformat accepts the string.
IsIsoDate(s) == \E i \in DOMAIN IsoDates : IsoDates[i] = s

\* The exception the conversion loop of load_tasks meets first from record i
\* on ("" when it meets none): per record task['start'] is read and converted,
\* then task['end'].
RECURSIVE FirstException(_, _)
FirstException(data, i) ==
  IF i > Len(data) THEN ""
  ELSE IF "start" \notin DOMAIN data[i] THEN "KeyError"
  ELSE IF ~IsIsoDate(data[i].start) THEN "ValueError"
  ELSE IF "end" \notin DOMAIN data[i] THEN "KeyError"
  ELSE IF ~IsIsoDate(data[i].end) THEN "ValueError"
  ELSE FirstException(data, i + 1)

\* The except clause of load_tasks.
CaughtByLoadTasks(exc) == exc \in {"JSONDecodeError", "KeyError", "FileNotFoundError"}

\* load_tasks on the file f: the exception it raises ("" when it returns) and
\* the list it returns.
load_tasks(f) ==
  LET exc == IF f.kind = "absent" THEN ""
             ELSE IF f.kind = "garbage" THEN "JSONDecodeError"
             ELSE FirstException(f.data, 1)
  IN  IF f.kind = "absent" THEN [raised |-> "", data |-> <<>>]
      ELSE IF exc = ""
      THEN [raised |-> "",
            data |-> [i \in DOMAIN f.data |->
                       [f.data[i] EXCEPT !.start = fromisoformat(f.data[i].start),
                                         !.end = fromisoformat(f.data[i].end)]]]
      ELSE IF CaughtByLoadTasks(exc) THEN [raised |-> "", data |-> <<>>]
      ELSE [raised |-> exc, data |-> <<>>]

\* ------------------------------------------------------------ total scheduled hours

\* The remainder scan: 'remaining' days from current_date on, counting
\* task_time for each whose weekday is in task_days.
RECURSIVE RemainderScan(_, _, _, _)
RemainderScan(current_date, remaining, task_days, task_time) ==
  IF remaining <= 0 THEN 0
  ELSE (IF day_name(current_date) \in task_days THEN task_time ELSE 0)
       + RemainderScan(current_date + 1, remaining - 1, task_days, task_time)

\* Fault variant of ScheduledHoursOfTask: the range length misses its '+ 1'.
ScheduledHoursOfTask_NoPlusOne(task) ==
  LET days_per_week == Cardinality(task.days)
      total_days_in_range == task.end - task.start
      full_weeks == total_days_in_range \div 7
      remaining_days == total_days_in_range % 7
  IN  full_weeks * days_per_week * task.time
      + RemainderScan(task.start, remaining_days, task.days, task.time)

\* task_load of one task in calculate_total_scheduled_hours.
ScheduledHoursOfTask(task) ==
  LET days_per_week == Cardinality(task.days)
      total_days_in_range == (task.end - task.start) + 1
      full_weeks == total_days_in_range \div 7
      remaining_days == total_days_in_range % 7
  IN  full_weeks * days_per_week * task.time
      + RemainderScan(task.start, remaining_days, task.days, task.time)

RECURSIVE SumScheduled(_, _)
SumScheduled(tasks_list, k) ==
  IF k > Len(tasks_list) THEN 0
  ELSE ScheduledHoursOfTask(tasks_list[k]) + SumScheduled(tasks_list, k + 1)

calculate_total_scheduled_hours(tasks_list) == SumScheduled(tasks_list, 1)

\* ------------------------------------------------------------ run_audit

\* Fault variant of InitialFrame: the Task_Load column continues from the
\* audit_df of the session instead of starting at 0.0.
InitialFrame_Accumulating(start, end) ==
  LET dr == date_range(start, end)
  IN  [i \in DOMAIN dr |->
        [Date |-> dr[i], DayOfWeek |-> day_name(dr[i]),
         Max_Capacity |-> MAX_WORK_CAPACITY,
         Task_Load |-> IF i \in DOMAIN audit_df THEN audit_df[i].Task_Load ELSE 0]]

\* Step 1: one row per day of the range, Task_Load 0.0.
InitialFrame(start, end) ==
  LET dr == date_range(start, end)
  IN  [i \in DOMAIN dr |->
        [Date |-> dr[i], DayOfWeek |-> day_name(dr[i]),
         Max_Capacity |-> MAX_WORK_CAPACITY, Task_Load |-> 0]]

\* Fault variant of RelevantRow: the task's end day is excluded.
RelevantRow_ExclusiveEnd(row, task) ==
  /\ row.Date >= task.start
  /\ row.Date < task.end
  /\ row.DayOfWeek \in task.days

\* The row mask of step 2 for one task.
RelevantRow(row, task) ==
  /\ row.Date >= task.start
  /\ row.Date <= task.end
  /\ row.DayOfWeek \in task.days

\* Step 2: the loop over the task list, adding task_time to the relevant rows.
RECURSIVE AddTaskLoads(_, _, _)
AddTaskLoads(df, ts, k) ==
  IF k > Len(ts) THEN df
  ELSE AddTaskLoads(
         [i \in DOMAIN df |->
           IF RelevantRow(df[i], ts[k])
           THEN [df[i] EXCEPT !.Task_Load = @ + ts[k].time]
           ELSE df[i]],
         ts, k + 1)

\* Fault variant of OverloadFlag: a day exactly at capacity is flagged.
OverloadFlag_AtCapacity(x) == IF x >= 0 THEN "Overload Day" ELSE "OK"

\* The lambda of step 3.
OverloadFlag(x) == IF x > 0 THEN "Overload Day" ELSE "OK"

\* Step 3: the Overload_Hours and Overload_Flag columns.
WithOverload(df) ==
  [i \in DOMAIN df |->
    [Date |-> df[i].Date, DayOfWeek |-> df[i].DayOfWeek,
     Max_Capacity |-> df[i].Max_Capacity, Task_Load |-> df[i].Task_Load,
     Overload_Hours |-> df[i].Task_Load - df[i].Max_Capacity,
     Overload_Flag |-> OverloadFlag(df[i].Task_Load - df[i].Max_Capacity)]]

\* Fault variant of VizActive: the task's start day is excluded.
VizActive_ExclusiveStart(row, task) ==
  /\ row.DayOfWeek \in task.days
  /\ task.start < row.Date
  /\ row.Date <= task.end

\* The condition of the inner loop of step 4.
VizActive(row, task) ==
  /\ row.DayOfWeek \in task.days
  /\ task.start <= row.Date
  /\ row.Date <= task.end

RECURSIVE VizTaskRows(_, _, _)
VizTaskRows(row, ts, k) ==
  IF k > Len(ts) THEN <<>>
  ELSE (IF VizActive(row, ts[k])
        THEN <<[Date |-> row.Date, Hours |-> ts[k].time,
                Type |-> "Task Load", Task_Name |-> ts[k].name]>>
        ELSE <<>>)
       \o VizTaskRows(row, ts, k + 1)

\* Step 4: per row of audit_df, the capacity row and then the task rows.
RECURSIVE VizData(_, _, _)
VizData(df, ts, i) ==
  IF i > Len(df) THEN <<>>
  ELSE <<[Date |-> df[i].Date, Hours |-> df[i].Max_Capacity,
          Type |-> "Max Capacity", Task_Name |-> "Max Capacity"]>>
       \o VizTaskRows(df[i], ts, 1)
       \o VizData(df, ts, i + 1)

\* Fault variant of run_audit: an empty range is returned as an empty frame.
run_audit_ReturnsEmpty(ts, start, end) ==
  LET df == WithOverload(AddTaskLoads(InitialFrame(start, end), ts, 1))
  IN  [raised |-> FALSE, audit_df |-> df, viz_df |-> VizData(df, ts, 1)]

\* run_audit(audit_start, audit_end) on the task list ts. It stores viz_df in
\* the session state and returns audit_df; with no viz row the DataFrame has
\* no 'Date' column and line 242 raises KeyError after viz_df was stored.
run_audit(ts, start, end) ==
  LET df == WithOverload(AddTaskLoads(InitialFrame(start, end), ts, 1))
      viz == VizData(df, ts, 1)
  IN  [raised |-> (viz = <<>>), audit_df |-> df, viz_df |-> viz]

\* ------------------------------------------------------------ audit summary

RECURSIVE SumLoad(_, _)
SumLoad(df, i) ==
  IF i > Len(df) THEN 0 ELSE df[i].Task_Load + SumLoad(df, i + 1)

\* Fault variant of AuditSummary: every day of the window counts as active.
AuditSummary_AllDays(df) ==
  LET total_hours_in_range == SumLoad(df, 1)
      total_active_days == Len(df)
  IN  [total_audited_hours |-> total_hours_in_range,
       total_active_days |-> total_active_days,
       avg_daily_load |-> IF total_active_days > 0
                          THEN TrueDiv(total_hours_in_range, total_active_days)
                          ELSE Zero]

\* The summary block of the audit trigger, for a non-empty audit_df.
AuditSummary(df) ==
  LET active_days_df == SelectSeq(df, LAMBDA row : row.Task_Load > 0)
      total_hours_in_range == SumLoad(active_days_df, 1)
      total_active_days == Len(active_days_df)
  IN  [total_audited_hours |-> total_hours_in_range,
       total_active_days |-> total_active_days,
       avg_daily_load |-> IF total_active_days > 0
                          THEN TrueDiv(total_hours_in_range, total_active_days)
                          ELSE Zero]

\* ------------------------------------------------------------ widgets

Dates == 0..MaxDate

\* A range date_input delivers one date (selection in progress) or two; the
\* guards of save_edit_callback and of the audit trigger provide for a first
\* date after the second, so every pair is a possible value.
DateInputs == {<<a>> : a \in Dates} \cup {<<a, b>> : a \in Dates, b \in Dates}

\* Unpacking a date_input value into (start, end): both forms of the Add Task
\* form (a single date for a one-time event) and save_edit_callback.
PickedStart(dates) == dates[1]

PickedEnd(dates) == IF Len(dates) = 2 THEN dates[2] ELSE dates[1]

\* ------------------------------------------------------------ session start

\* Section 3 of the script on the first run of a session, with no task file;
\* today is day 0.
Init ==
  /\ file = NoFile
  /\ tasks = load_tasks(NoFile).data
  /\ audit_ran = FALSE
  /\ audit_df = <<>>
  /\ viz_df = <<>>
  /\ summary = <<>>
  /\ edit_index = NoIndex
  /\ audit_start = 0
  /\ audit_end = 0 + DefaultAuditSpan
  /\ total_scheduled_hours = calculate_total_scheduled_hours(load_tasks(NoFile).data)
  /\ msg = ""
  /\ runs = 0

\* The caption of panel 1, recomputed by every script run.
Caption ==
  /\ runs < MaxRuns
  /\ runs' = runs + 1
  /\ total_scheduled_hours' = calculate_total_scheduled_hours(tasks')

\* ------------------------------------------------------------ task management

\* The Add Task submit block, valid submission.
AddTask(task_name, task_unit_time, task_days, task_dates) ==
  /\ Len(tasks) < MaxTasks
  /\ task_name # ""
  /\ task_days # {}
  /\ tasks' = Append(tasks, [name |-> task_name, time |-> task_unit_time,
                             days |-> task_days,
                             start |-> PickedStart(task_dates),
                             end |-> PickedEnd(task_dates)])
  /\ file' = save_tasks(tasks')
  /\ audit_ran' = FALSE
  /\ msg' = "Task added and saved."
  /\ UNCHANGED <<audit_df, viz_df, summary, edit_index, audit_start, audit_end>>
  /\ Caption

\* The Add Task submit block, is_valid = False.
AddTaskRejected(task_name, task_days) ==
  /\ task_name = "" \/ task_days = {}
  /\ msg' = IF task_days = {} THEN "At least one Day is required."
            ELSE "Task Name is required."
  /\ UNCHANGED <<tasks, file, audit_ran, audit_df, viz_df, summary, edit_index,
                 audit_start, audit_end>>
  /\ Caption

\* The pencil button of row i.
ClickEdit(i) ==
  /\ i \in DOMAIN tasks
  /\ edit_index' = i
  /\ msg' = ""
  /\ UNCHANGED <<tasks, file, audit_ran, audit_df, viz_df, summary,
                 audit_start, audit_end>>
  /\ Caption

\* The edit form is rendered.
EditFormShown == edit_index # NoIndex /\ edit_index <= Len(tasks)

\* save_edit_callback, the update. Its arguments are the values the edit form
\* held in the script run that rendered the Save Changes button.
save_edit_callback(new_name, new_time, new_days, new_dates) ==
  /\ EditFormShown
  /\ ~(PickedStart(new_dates) > PickedEnd(new_dates))
  /\ tasks' = [tasks EXCEPT ![edit_index] =
                 [name |-> new_name, time |-> new_time, days |-> new_days,
                  start |-> PickedStart(new_dates), end |-> PickedEnd(new_dates)]]
  /\ file' = save_tasks(tasks')
  /\ edit_index' = NoIndex
  /\ msg' = "Task updated and saved!"
  /\ UNCHANGED <<audit_ran, audit_df, viz_df, summary, audit_start, audit_end>>
  /\ Caption

\* save_edit_callback, the early return.
SaveEditRejected(new_dates) ==
  /\ EditFormShown
  /\ PickedStart(new_dates) > PickedEnd(new_dates)
  /\ msg' = "Save Failed: Start date cannot be after the end date."
  /\ UNCHANGED <<tasks, file, audit_ran, audit_df, viz_df, summary, edit_index,
                 audit_start, audit_end>>
  /\ Caption

\* The Cancel button of the edit form.
CancelEdit ==
  /\ EditFormShown
  /\ edit_index' = NoIndex
  /\ msg' = ""
  /\ UNCHANGED <<tasks, file, audit_ran, audit_df, viz_df, summary,
                 audit_start, audit_end>>
  /\ Caption

\* del tasks[index]
Delete(ts, index) == [i \in 1..(Len(ts) - 1) |-> IF i < index THEN ts[i] ELSE ts[i + 1]]

delete_task(index) ==
  /\ index \in DOMAIN tasks
  /\ tasks' = Delete(tasks, index)
  /\ file' = save_tasks(tasks')
  /\ audit_ran' = FALSE
  /\ edit_index' = NoIndex
  /\ msg' = "Task deleted and saved."
  /\ UNCHANGED <<audit_df, viz_df, summary, audit_start, audit_end>>
  /\ Caption

\* The Clear ALL Tasks button is rendered only for a non-empty list.
clear_tasks_callback ==
  /\ tasks # <<>>
  /\ tasks' = <<>>
  /\ file' = save_tasks(tasks')
  /\ audit_ran' = FALSE
  /\ msg' = "All tasks cleared and saved."
  /\ UNCHANGED <<audit_df, viz_df, summary, edit_index, audit_start, audit_end>>
  /\ Caption

\* ------------------------------------------------------------ audit

\* The audit date picker delivers two dates.
SetAuditDates(audit_dates) ==
  /\ Len(audit_dates) = 2
  /\ <<audit_dates[1], audit_dates[2]>> # <<audit_start, audit_end>>
  /\ audit_start' = audit_dates[1]
  /\ audit_end' = audit_dates[2]
  /\ msg' = ""
  /\ UNCHANGED <<tasks, file, audit_ran, audit_df, viz_df, summary, edit_index>>
  /\ Caption

\* The Run Daily Audit button.
RunDailyAudit ==
  /\ \/ /\ tasks = <<>>
        /\ msg' = "Please add at least one task to run the audit."
        /\ UNCHANGED <<audit_ran, audit_df, viz_df, summary>>
     \/ /\ tasks # <<>>
        /\ audit_start > audit_end
        /\ msg' = "Audit start date cannot be after the end date."
        /\ UNCHANGED <<audit_ran, audit_df, viz_df, summary>>
     \/ /\ tasks # <<>>
        /\ ~(audit_start > audit_end)
        /\ LET r == run_audit(tasks, audit_start, audit_end)
           IN  /\ viz_df' = r.viz_df
               /\ IF r.raised
                  THEN /\ msg' = "KeyError: 'Date'"
                       /\ UNCHANGED <<audit_ran, audit_df, summary>>
                  ELSE /\ audit_df' = r.audit_df
                       /\ audit_ran' = TRUE
                       /\ summary' = IF r.audit_df # <<>>
                                     THEN <<AuditSummary(r.audit_df)>>
                                     ELSE summary
                       /\ msg' = "Audit executed successfully."
  /\ UNCHANGED <<tasks, file, edit_index, audit_start, audit_end>>
  /\ Caption

\* ------------------------------------------------------------ the session

Next ==
  \/ \E n \in FormNames, t \in FormTimes, d \in FormDays, r \in DateInputs :
       AddTask(n, t, d, r)
  \/ \E n \in FormNames, d \in FormDays : AddTaskRejected(n, d)
  \/ \E i \in 1..MaxTasks : ClickEdit(i)
  \/ \E n \in FormNames, t \in FormTimes, d \in FormDays, r \in DateInputs :
       save_edit_callback(n, t, d, r)
  \/ \E r \in DateInputs : SaveEditRejected(r)
  \/ CancelEdit
  \/ \E i \in 1..MaxTasks : delete_task(i)
  \/ clear_tasks_callback
  \/ \E r \in DateInputs : SetAuditDates(r)
  \/ RunDailyAudit

Spec == Init /\ [][Next]_vars

\* ------------------------------------------------------------ the core, called directly

\* Task lists with pairwise different names over a set of tasks.
UniqueNameLists(S) ==
  {ts \in UNION {[1..n -> S] : n \in 0..Cardinality(TaskNames)} :
     \A i, j \in DOMAIN ts : i # j => ts[i].name # ts[j].name}

\* A session whose task list and window are given, before its last modelled run.
Loaded(ts, start, end) ==
  /\ tasks = ts
  /\ file = save_tasks(ts)
  /\ audit_ran = FALSE
  /\ audit_df = <<>>
  /\ viz_df = <<>>
  /\ summary = <<>>
  /\ edit_index = NoIndex
  /\ audit_start = start
  /\ audit_end = end
  /\ total_scheduled_hours = 0
  /\ msg = ""
  /\ runs = MaxRuns - 1

AuditDates == 0..MaxAuditDate

AuditTasks ==
  {t \in [name : TaskNames, time : CoreTimes, days : CoreDays,
          start : AuditDates, end : AuditDates] : t.start <= t.end}

InitAudit ==
  \E ts \in UniqueNameLists(AuditTasks), start \in AuditDates, end \in AuditDates :
    Loaded(ts, start, end)

\* run_audit(audit_start, audit_end) returns.
CallRunAudit ==
  LET r == run_audit(tasks, audit_start, audit_end)
  IN  /\ ~r.raised
      /\ viz_df' = r.viz_df
      /\ audit_df' = r.audit_df
      /\ msg' = "run_audit returned"
      /\ UNCHANGED <<tasks, file, audit_ran, summary, edit_index, audit_start,
                     audit_end, total_scheduled_hours, runs>>

\* run_audit(audit_start, audit_end) raises.
CallRunAuditRaises ==
  LET r == run_audit(tasks, audit_start, audit_end)
  IN  /\ r.raised
      /\ viz_df' = r.viz_df
      /\ msg' = "KeyError: 'Date'"
      /\ UNCHANGED <<tasks, file, audit_ran, audit_df, summary, edit_index,
                     audit_start, audit_end, total_scheduled_hours, runs>>

NextAudit == RunDailyAudit \/ CallRunAudit \/ CallRunAuditRaises

SpecAudit == InitAudit /\ [][NextAudit]_vars

TotalTasks ==
  {t \in [name : TaskNames, time : CoreTimes, days : TotalDays,
          start : 0..MaxRangeStart, end : 0..(MaxRangeStart + MaxRangeLen - 1)] :
     /\ t.start <= t.end
     /\ t.end - t.start + 1 <= MaxRangeLen}

InitTotal == \E ts \in UniqueNameLists(TotalTasks) : Loaded(ts, 0, 0)

\* calculate_total_scheduled_hours(st.session_state.tasks) returns.
CallCalculateTotal ==
  /\ msg = ""
  /\ total_scheduled_hours' = calculate_total_scheduled_hours(tasks)
  /\ msg' = "calculate_total_scheduled_hours returned"
  /\ UNCHANGED <<tasks, file, audit_ran, audit_df, viz_df, summary, edit_index,
                 audit_start, audit_end, runs>>

NextTotal == CallCalculateTotal

SpecTotal == InitTotal /\ [][NextTotal]_vars

\* ------------------------------------------------------------ properties

\* The sum of f over a finite set of indices.
RECURSIVE SumOver(_, _)
SumOver(S, f) ==
  IF S = {} THEN 0
  ELSE LET x == CHOOSE y \in S : TRUE IN f[x] + SumOver(S \ {x}, f)

\* A run of the audit has stored its records in audit_df.
AuditDone == msg \in {"Audit executed successfully.", "run_audit returned"}

\* The tasks of the list that are active on day d.
ActiveOn(d) ==
  {k \in DOMAIN tasks :
     /\ tasks[k].start <= d
     /\ d <= tasks[k].end
     /\ day_name(d) \in tasks[k].days}

RowOf(d) == CHOOSE i \in DOMAIN audit_df : audit_df[i].Date = d

\* C1: after an audit of a window with audit_start <= audit_end, every day d of
\* the window has a record whose Task_Load is the sum of the hours of exactly
\* the tasks with start <= d <= end and weekday_name(d) in days; a task
\* contributes on its own start and end day when the weekday matches, nothing
\* on the day before start or after end, and a task whose days never fall in
\* its range contributes nothing anywhere.
C1_TaskLoadIsSumOfActiveTasks ==
  AuditDone =>
    /\ \A d \in audit_start..audit_end :
         /\ \E i \in DOMAIN audit_df : audit_df[i].Date = d
         /\ audit_df[RowOf(d)].Task_Load
              = SumOver(ActiveOn(d), [k \in DOMAIN tasks |-> tasks[k].time])
    /\ Len(tasks) = 1 =>
         \A d \in audit_start..audit_end :
           audit_df[RowOf(d)].Task_Load =
             IF /\ d \in tasks[1].start..tasks[1].end
                /\ day_name(d) \in tasks[1].days
             THEN tasks[1].time ELSE 0
    /\ \A k \in DOMAIN tasks :
         (\A d \in tasks[k].start..tasks[k].end : day_name(d) \notin tasks[k].days)
           => \A d \in audit_start..audit_end :
                audit_df[RowOf(d)].Task_Load
                  = SumOver(ActiveOn(d) \ {k}, [j \in DOMAIN tasks |-> tasks[j].time])

\* A one-day task audited over a window that begins the day before it and
\* ends the day after it: loaded on its day, not on the neighbours, next to a
\* second task that adds to the same day.
C1_Witness ==
  /\ msg = "run_audit returned"
  /\ Len(tasks) = 2
  /\ tasks[1].start = 1 /\ tasks[1].end = 1 /\ tasks[1].days = AllDays
  /\ tasks[2].start = 0 /\ tasks[2].end = 1 /\ tasks[2].days = {"Tuesday"}
  /\ audit_start = 0 /\ audit_end = 2
  /\ audit_df[1].Task_Load = 0
  /\ audit_df[2].Task_Load = tasks[1].time + tasks[2].time
  /\ audit_df[3].Task_Load = 0

\* C2: in every record Overload_Hours is Task_Load - MAX_WORK_CAPACITY and the
\* day is an 'Overload Day' iff Task_Load > 13.0; a load of exactly 13.0 is 'OK'.
C2_OverloadIsStrictlyAboveCapacity ==
  \A i \in DOMAIN audit_df :
    /\ audit_df[i].Overload_Hours = audit_df[i].Task_Load - 130
    /\ audit_df[i].Overload_Flag \in {"Overload Day", "OK"}
    /\ audit_df[i].Overload_Flag = "Overload Day" <=> audit_df[i].Task_Load > 130
    /\ audit_df[i].Task_Load = 130 => audit_df[i].Overload_Flag = "OK"

\* One audit with a day at exactly 13.0 h (OK) and a day above it (overload).
C2_Witness ==
  /\ AuditDone
  /\ \E i \in DOMAIN audit_df :
       audit_df[i].Task_Load = 130 /\ audit_df[i].Overload_Flag = "OK"
  /\ \E i \in DOMAIN audit_df :
       audit_df[i].Task_Load = 180 /\ audit_df[i].Overload_Flag = "Overload Day"

\* C3: an audit of a window with audit_start <= audit_end returns exactly one
\* record per day of [audit_start, audit_end], in strictly ascending date
\* order: (audit_end - audit_start).days + 1 records, the i-th for day
\* audit_start + i - 1.
C3_OneRecordPerDayAscending ==
  AuditDone =>
    /\ audit_start <= audit_end
    /\ Len(audit_df) = (audit_end - audit_start) + 1
    /\ \A i \in DOMAIN audit_df : audit_df[i].Date = audit_start + (i - 1)
    /\ \A i, j \in DOMAIN audit_df : i < j => audit_df[i].Date < audit_df[j].Date
    /\ audit_start = audit_end => Len(audit_df) = 1

\* An audit of a window of several days.
C3_Witness ==
  /\ AuditDone
  /\ audit_start = 0
  /\ audit_end = 2
  /\ Len(audit_df) = 3

\* The day-by-day scan of one task's own range.
BruteForceHours(task) ==
  SumOver({d \in task.start..task.end : day_name(d) \in task.days},
          [d \in task.start..task.end |-> task.time])

ActiveRows == {i \in DOMAIN audit_df : audit_df[i].Task_Load > 0}

\* C5: after an audit run total_audited_hours is the sum of Task_Load over the
\* days with Task_Load > 0, total_active_days the number of those days, and
\* avg_daily_load their quotient, or 0 when no day has positive load.
C5_SummaryStatistics ==
  /\ msg = "Audit executed successfully." => summary # <<>>
  /\ summary # <<>> =>
       /\ summary[1].total_audited_hours
            = SumOver(ActiveRows, [i \in DOMAIN audit_df |-> audit_df[i].Task_Load])
       /\ summary[1].total_active_days = Cardinality(ActiveRows)
       /\ summary[1].avg_daily_load[2] > 0
       /\ IF Cardinality(ActiveRows) > 0
          THEN summary[1].avg_daily_load[1] * summary[1].total_active_days
                 = summary[1].total_audited_hours * summary[1].avg_daily_load[2]
          ELSE summary[1].avg_daily_load = <<0, 1>>

\* An audit whose average over three active days is not a whole number.
C5_Witness ==
  /\ summary # <<>>
  /\ summary[1].total_active_days = 3
  /\ summary[1].total_audited_hours = 280
  /\ summary[1].avg_daily_load = <<280, 3>>

\* The viz rows of day d, in viz_df order.
VizRowsOf(d) == SelectSeq(viz_df, LAMBDA r : r.Date = d)

\* The tasks active on day d, in task-list order.
ActiveTasksOn(d) ==
  SelectSeq(tasks, LAMBDA t : t.start <= d /\ d <= t.end /\ day_name(d) \in t.days)

TaskLoadRows == {j \in DOMAIN viz_df : viz_df[j].Type = "Task Load"}

\* C6: the visualization rows hold, per day of the window in ascending day
\* order, one 'Max Capacity' row with Hours 13.0 followed by one 'Task Load'
\* row (the task's hours and name) per task active on that day, in task-list
\* order; so a day's 'Task Load' hours add up to that day's Task_Load.
C6_VizRowsPerDay ==
  AuditDone =>
    /\ \A j \in DOMAIN viz_df : viz_df[j].Date \in audit_start..audit_end
    /\ \A i, j \in DOMAIN viz_df : i < j => viz_df[i].Date <= viz_df[j].Date
    /\ \A d \in audit_start..audit_end :
         LET rows == VizRowsOf(d)
             act == ActiveTasksOn(d)
         IN  /\ Len(rows) = 1 + Len(act)
             /\ rows[1] = [Date |-> d, Hours |-> 130, Type |-> "Max Capacity",
                           Task_Name |-> "Max Capacity"]
             /\ \A k \in DOMAIN act :
                  rows[k + 1] = [Date |-> d, Hours |-> act[k].time,
                                 Type |-> "Task Load", Task_Name |-> act[k].name]
             /\ SumOver({j \in TaskLoadRows : viz_df[j].Date = d},
                        [j \in DOMAIN viz_df |-> viz_df[j].Hours])
                  = audit_df[RowOf(d)].Task_Load

\* A day with two task rows after its capacity row, before a day with none.
C6_Witness ==
  /\ AuditDone
  /\ Len(tasks) = 2
  /\ Len(viz_df) >= 4
  /\ viz_df[1].Type = "Max Capacity"
  /\ viz_df[2].Type = "Task Load" /\ viz_df[2].Task_Name = tasks[1].name
  /\ viz_df[3].Type = "Task Load" /\ viz_df[3].Task_Name = tasks[2].name
  /\ viz_df[4].Type = "Max Capacity" /\ viz_df[4].Date = viz_df[1].Date + 1
  /\ (Len(viz_df) > 4 => viz_df[5].Type = "Max Capacity")

\* A step in which run_audit is invoked: directly, or by the audit trigger.
RunAuditInvoked ==
  \/ CallRunAudit
  \/ CallRunAuditRaises
  \/ RunDailyAudit /\ msg' = "Audit executed successfully."

RangeError == "Audit start date cannot be after the end date."

C9_UniqueNames ==
  \A i, j \in DOMAIN tasks : i # j => tasks[i].name # tasks[j].name

\* C10: every task of the task list has a non-empty name, a non-empty set of
\* recurrence days and start <= end.
C10_WellFormedTasks ==
  \A k \in DOMAIN tasks :
    /\ tasks[k].name # ""
    /\ tasks[k].days # {}
    /\ tasks[k].start <= tasks[k].end

\* ------------------------------------------------------------ load_tasks, called directly

\* Records a task file can hold: the records save_tasks writes for well-formed
\* tasks, and one of them with its start or end missing or not an ISO date.
GoodRecords ==
  {[name |-> n, time |-> 90, days |-> {"Monday", "Tuesday"},
    start |-> isoformat(a), end |-> isoformat(b)] :
     n \in TaskNames, a \in Dates, b \in Dates}

BadRecords ==
  {[name |-> "Work", time |-> 90, days |-> {"Monday", "Tuesday"},
    end |-> isoformat(0)],
   [name |-> "Work", time |-> 90, days |-> {"Monday", "Tuesday"},
    start |-> isoformat(0)],
   [name |-> "Work", time |-> 90, days |-> {"Monday", "Tuesday"},
    start |-> "06/01/2025", end |-> isoformat(0)],
   [name |-> "Work", time |-> 90, days |-> {"Monday", "Tuesday"},
    start |-> isoformat(0), end |-> "tomorrow"]}

TaskFiles ==
  {NoFile, GarbageFile}
  \cup {[kind |-> "json", data |-> d] :
          d \in UNION {[1..n -> GoodRecords \cup BadRecords] : n \in 0..MaxTasks}}

\* A new session before section 3 of the script has run, over any task file.
InitLoad ==
  /\ file \in TaskFiles
  /\ tasks = <<>>
  /\ audit_ran = FALSE
  /\ audit_df = <<>>
  /\ viz_df = <<>>
  /\ summary = <<>>
  /\ edit_index = NoIndex
  /\ audit_start = 0
  /\ audit_end = 0 + DefaultAuditSpan
  /\ total_scheduled_hours = 0
  /\ msg = ""
  /\ runs = 0

\* st.session_state.tasks = load_tasks(), load_tasks returns.
LoadTasksReturns ==
  /\ msg = ""
  /\ load_tasks(file).raised = ""
  /\ tasks' = load_tasks(file).data
  /\ msg' = "load_tasks returned"
  /\ UNCHANGED <<file, audit_ran, audit_df, viz_df, summary, edit_index,
                 audit_start, audit_end, total_scheduled_hours, runs>>

\* st.session_state.tasks = load_tasks(), load_tasks raises.
LoadTasksRaises ==
  /\ msg = ""
  /\ load_tasks(file).raised # ""
  /\ msg' = load_tasks(file).raised
  /\ UNCHANGED <<tasks, file, audit_ran, audit_df, viz_df, summary, edit_index,
                 audit_start, audit_end, total_scheduled_hours, runs>>

NextLoad == LoadTasksReturns \/ LoadTasksRaises

SpecLoad == InitLoad /\ [][NextLoad]_vars

\* The file is not JSON, or a record of it lacks start or end or holds a start
\* or end that is not an ISO date.
Malformed(f) ==
  \/ f.kind = "garbage"
  \/ /\ f.kind = "json"
     /\ \E i \in DOMAIN f.data :
          \/ "start" \notin DOMAIN f.data[i]
          \/ "end" \notin DOMAIN f.data[i]
          \/ \E s \in {"06/01/2025", "tomorrow"} :
               s \in {f.data[i][k] : k \in DOMAIN f.data[i] \cap {"start", "end"}}

\* C11: on a malformed task file (invalid JSON, a record without start or end,
\* a start or end that is no ISO date) load_tasks returns the empty task list:
\* it does not raise and returns no partially parsed record.
C11_MalformedFileLoadsEmpty ==
  (msg # "" /\ Malformed(file)) => (msg = "load_tasks returned" /\ tasks = <<>>)

\* C12: whenever audit_ran is true the stored audit_df is the result of
\* run_audit on the current task list over the window it was computed for,
\* every change of the task list having reset audit_ran.
C12_ShownAuditIsCurrent ==
  audit_ran =>
    /\ audit_df # <<>>
    /\ audit_df = run_audit(tasks, audit_df[1].Date,
                            audit_df[Len(audit_df)].Date).audit_df

====
